---- MODULE Spec2Model ----
(***************************************************************************)
(* Model of app.py: the bootstrap that connects to the inference provider  *)
(* and the /predict handler, run by several worker threads that share the  *)
(* model handle and the upload directory.                                  *)
(*                                                                         *)
(* Strings that the program inspects character by character (file names,   *)
(* class labels) are sequences of one-character strings; <<>> is ''.       *)
(***************************************************************************)
EXTENDS Integers, Sequences, FiniteSets, TLC

VARIABLES
    env,        \* os.environ after load_dotenv(): the two secrets
    model,      \* the global model handle: "None" or "model"
    bootlog,    \* the line the bootstrap logged; "" before it ran
    files,      \* regular files under the upload directory: path -> request whose bytes it holds
    pc,         \* per request: position of its handler
    payload,    \* per request: request.files
    filepath,   \* per request: the local variable filepath
    pending,    \* per request: what the try statement is about to return while finally runs
    resp,       \* per request: the HTTP response the client received
    reply,      \* per request: what model.predict(...).json() produced
    sent,       \* per request: whose bytes the provider read at filepath (0: none)
    raised,     \* per request: the exceptions raised while handling it, in order
    fmtIn,      \* formatter harness: a provider result
    fmtOut      \* formatter harness: the handler's outcome for it

vars == <<env, model, bootlog, files, pc, payload, filepath, pending, resp,
          reply, sent, raised, fmtIn, fmtOut>>

handlerVars == <<env, model, bootlog, files, pc, payload, filepath, pending,
                 resp, reply, sent, raised>>

-----------------------------------------------------------------------------
(* Bounds *)

NReq == 2               \* concurrent /predict requests
MaxDetections == 3      \* longest detection list given to the formatter
MaxConfidence == 2      \* confidences range over 1..MaxConfidence

Requests == 1..NReq

-----------------------------------------------------------------------------
(* Character helpers *)

LowerChars == <<"a","b","c","d","e","f","g","h","i","j","k","l","m",
                "n","o","p","q","r","s","t","u","v","w","x","y","z">>
UpperChars == <<"A","B","C","D","E","F","G","H","I","J","K","L","M",
                "N","O","P","Q","R","S","T","U","V","W","X","Y","Z">>
Digits == {"0","1","2","3","4","5","6","7","8","9"}

IsLower(c) == \E i \in DOMAIN LowerChars : LowerChars[i] = c
IsUpper(c) == \E i \in DOMAIN UpperChars : UpperChars[i] = c
IsCased(c) == IsLower(c) \/ IsUpper(c)

Upper(c) ==
    IF IsLower(c) THEN UpperChars[CHOOSE i \in DOMAIN LowerChars : LowerChars[i] = c]
    ELSE c

Lower(c) ==
    IF IsUpper(c) THEN LowerChars[CHOOSE i \in DOMAIN UpperChars : UpperChars[i] = c]
    ELSE c

-----------------------------------------------------------------------------
(* secure_filename(file.filename), os.path.join and the upload directory *)
(*                                                                         *)
(* secure_filename is the library function called at line 66: separators   *)
(* become spaces, whitespace-separated pieces are joined with "_",         *)
(* characters outside [A-Za-z0-9_.-] are dropped, leading and trailing "." *)
(* and "_" are stripped.  The result can be the empty string.              *)
(*                                                                         *)
(* The file operations have the outcomes that the state of the directory   *)
(* determines (written, removed, IsADirectoryError, FileNotFoundError);    *)
(* file.save can in addition fail on its own, before or after it created   *)
(* the file.                                                               *)

UPLOAD_FOLDER == <<"uploads">>

\* filename.replace(os.sep, " ")
ReplaceSep(s) == [i \in DOMAIN s |-> IF s[i] = "/" THEN " " ELSE s[i]]

\* "_".join(filename.split()): runs of whitespace become one "_", none at the ends
RECURSIVE JoinSplit(_, _, _)
JoinSplit(s, acc, gap) ==
    IF s = <<>> THEN acc
    ELSE IF Head(s) = " " THEN JoinSplit(Tail(s), acc, acc # <<>>)
    ELSE JoinSplit(Tail(s), (IF gap THEN acc \o <<"_">> ELSE acc) \o <<Head(s)>>, FALSE)

\* _filename_ascii_strip_re = [^A-Za-z0-9_.-]
SafeChar(c) == IsCased(c) \/ c \in Digits \/ c \in {"_", ".", "-"}

AsciiStrip(s) == SelectSeq(s, SafeChar)

\* .strip("._")
RECURSIVE LStrip(_)
LStrip(s) ==
    IF s # <<>> /\ Head(s) \in {".", "_"} THEN LStrip(Tail(s)) ELSE s

RECURSIVE RStrip(_)
RStrip(s) ==
    IF s # <<>> /\ s[Len(s)] \in {".", "_"} THEN RStrip(SubSeq(s, 1, Len(s) - 1)) ELSE s

secure_filename(name) == RStrip(LStrip(AsciiStrip(JoinSplit(ReplaceSep(name), <<>>, FALSE))))

\* os.path.join(app.config['UPLOAD_FOLDER'], filename)
PathJoin(dir, name) ==
    IF name # <<>> /\ Head(name) = "/" THEN name ELSE dir \o <<"/">> \o name

\* the upload directory itself, with or without the trailing separator
IsDir(path) == path \in {UPLOAD_FOLDER, UPLOAD_FOLDER \o <<"/">>}

\* os.path.exists(filepath)
Exists(fs, path) == IsDir(path) \/ path \in DOMAIN fs

\* the file at path now holds the bytes written by request r
WriteFile(fs, path, r) ==
    [p \in (DOMAIN fs) \cup {path} |-> IF p = path THEN r ELSE fs[p]]

\* variant: the cleanup logs but leaves the file in place
RemoveFileKeeps(fs, path) == fs

\* os.remove(filepath) on an existing regular file
RemoveFile(fs, path) == [p \in (DOMAIN fs) \ {path} |-> fs[p]]

NoFiles == [p \in {} |-> 0]

-----------------------------------------------------------------------------
(* Provider results and the response formatter (lines 79-99) *)

Chars_cow == <<"c","o","w">>
Chars_buffalo == <<"b","u","f","f","a","l","o">>
Chars_zebu == <<"z","e","B","u","-","1","a">>
NothingDetected == <<"N","o","t","h","i","n","g"," ","d","e","t","e","c","t","e","d">>
NoDetectionTag == <<"n","o","-","d","e","t","e","c","t","i","o","n">>

ClassLabels == {Chars_cow, Chars_buffalo, Chars_zebu}
Confidences == 1..MaxConfidence

\* a detection is a dict; the provider's schema gives it the keys class and confidence
Detection(c, k) == [class |-> c, confidence |-> k]
WellFormed == {Detection(c, k) : c \in ClassLabels, k \in Confidences}
Malformed == {[class |-> Chars_cow], [confidence |-> MaxConfidence]}

HasKey(d, k) == k \in DOMAIN d

RECURSIVE SeqsUpTo(_, _)
SeqsUpTo(S, n) ==
    IF n = 0 THEN {<<>>}
    ELSE LET shorter == SeqsUpTo(S, n - 1)
         IN  shorter \cup {Append(q, x) : q \in {t \in shorter : Len(t) = n - 1}, x \in S}

\* str.title(): a cased character is upper-cased when it follows an uncased
\* one (or starts the string) and lower-cased when it follows a cased one
RECURSIVE TitleFrom(_, _)
TitleFrom(s, prevCased) ==
    IF s = <<>> THEN <<>>
    ELSE LET c == Head(s)
         IN  IF IsCased(c)
             THEN <<(IF prevCased THEN Lower(c) ELSE Upper(c))>> \o TitleFrom(Tail(s), TRUE)
             ELSE <<c>> \o TitleFrom(Tail(s), FALSE)

Title(s) == TitleFrom(s, FALSE)

\* variant: the running best is also replaced by an equal key (last maximum wins)
RECURSIVE MaxFromLast(_, _)
MaxFromLast(best, rest) ==
    IF rest = <<>> THEN best
    ELSE IF Head(rest).confidence >= best.confidence THEN MaxFromLast(Head(rest), Tail(rest))
    ELSE MaxFromLast(best, Tail(rest))

\* max(predictions, key=lambda p: p['confidence']): the running best is
\* replaced only by a strictly greater key
RECURSIVE MaxFrom(_, _)
MaxFrom(best, rest) ==
    IF rest = <<>> THEN best
    ELSE IF Head(rest).confidence > best.confidence THEN MaxFrom(Head(rest), Tail(rest))
    ELSE MaxFrom(best, Tail(rest))

PyMax(preds) == MaxFrom(Head(preds), Tail(preds))

\* set([p['class'] for p in predictions])
Tags(preds) == {preds[i].class : i \in DOMAIN preds}

Returned(response) == [raise |-> FALSE, value |-> response]
Raised(exc) == [raise |-> TRUE, exc |-> exc]

Json200(data) == [status |-> 200, body |-> data]

\* prediction_result.get('predictions', [])
GetPredictions(result) ==
    IF HasKey(result, "predictions") THEN result.predictions ELSE <<>>

\* lines 79-99: the outcome of formatting a provider result
FormatResponse(result) ==
    LET predictions == GetPredictions(result)
    IN  IF predictions = <<>>
        THEN Returned(Json200([prediction |-> NothingDetected,
                               confidence |-> 0,
                               tags |-> {NoDetectionTag}]))
        ELSE IF \E i \in DOMAIN predictions : ~HasKey(predictions[i], "confidence")
        THEN Raised("KeyError: 'confidence'")
        ELSE LET best_prediction == PyMax(predictions)
             IN  IF \E i \in DOMAIN predictions : ~HasKey(predictions[i], "class")
                 THEN Raised("KeyError: 'class'")
                 ELSE Returned(Json200([prediction |-> Title(best_prediction.class),
                                        confidence |-> best_prediction.confidence,
                                        tags |-> Tags(predictions)]))

-----------------------------------------------------------------------------
(* Responses *)

NoResponse == [status |-> 0, body |-> [none |-> TRUE]]

ErrorJson(code, msg) == [status |-> code, body |-> [error |-> msg]]

NotInitialized500 == ErrorJson(500, "Model is not initialized. Check server logs for details.")
\* variant: the status code is left out of the return, so the response is a 200
NoFilePartDefaultStatus == ErrorJson(200, "No file part in the request.")
NoFilePart400 == ErrorJson(400, "No file part in the request.")
NoFileSelected400 == ErrorJson(400, "No file selected.")
Unknown500 == ErrorJson(500, "An unknown error occurred.")

\* the except clause: details is str(e)
Failed500(exc) ==
    [status |-> 500, body |-> [error |-> "Failed to process the image.", details |-> exc]]

\* an exception that leaves predict(): the framework answers with its own 500 page
Uncaught500 == [status |-> 500, body |-> [html |-> "Internal Server Error"]]

-----------------------------------------------------------------------------
(* Inputs *)

\* os.getenv(...): "None" when the variable is unset
EnvValues == {"None", "", "secret"}

\* client-supplied file names: two that sanitize to the same name, one that
\* sanitizes to another name, one that sanitizes to ''
ClientNames == {<<"a">>, <<"/", "a">>, <<"b">>, <<".", ".">>}

FileStorage(name) == [filename |-> name]

\* request.files: a multipart payload without fields, with the field under
\* another name, with an empty file name, with a file
Payloads ==
    {[f \in {} |-> FileStorage(<<>>)]}
    \cup {[f \in {"image"} |-> FileStorage(<<"a">>)]}
    \cup {[f \in {"file"} |-> FileStorage(n)] : n \in ClientNames \cup {<<>>}}

\* what model.predict(filepath, ...).json() can produce, besides raising
ProviderResults ==
    { [other \in {} |-> <<>>],
      [predictions |-> <<>>],
      [predictions |-> <<Detection(Chars_cow, 1), Detection(Chars_buffalo, MaxConfidence),
                         Detection(Chars_cow, 1)>>],
      [predictions |-> <<[class |-> Chars_cow]>>] }

ProviderOutcomes ==
    {Raised("ProviderError")} \cup {Returned(res) : res \in ProviderResults}

\* every provider result with at most MaxDetections detections
FormatInputs ==
    {[other \in {} |-> <<>>]}
    \cup {[predictions |-> q] : q \in SeqsUpTo(WellFormed \cup Malformed, MaxDetections)}

NoOutcome == [raise |-> FALSE, value |-> NoResponse]

-----------------------------------------------------------------------------
(* Bootstrap (lines 25-45) *)

Truthy(v) == v \notin {"None", ""}

\* all([ROBOFLOW_API_KEY, ROBOFLOW_WORKSPACE_ID])
AllSecrets(e) == Truthy(e.ROBOFLOW_API_KEY) /\ Truthy(e.ROBOFLOW_WORKSPACE_ID)

Bootstrap ==
    /\ bootlog = ""
    /\ IF ~AllSecrets(env)
       THEN /\ bootlog' = "error: Roboflow API Key or Workspace ID is missing in the .env file."
            /\ model' = model
       ELSE \E connected \in BOOLEAN :
              IF connected
              THEN /\ model' = "model"
                   /\ bootlog' = "info: Successfully connected to Roboflow model."
              ELSE /\ model' = model
                   /\ bootlog' = "error: provider connection failed"
    /\ UNCHANGED <<env, files, pc, payload, filepath, pending, resp, reply, sent,
                   raised, fmtIn, fmtOut>>

-----------------------------------------------------------------------------
(* predict() (lines 50-111) *)

\* line 52
ModelIsNone(m) == m = "None"

\* line 56
NoFilePart(request_files) == "file" \notin DOMAIN request_files

\* variant: the file name is compared with None, which a parsed upload never has
NoFileSelectedIsNone(file) == file.filename \in {}

\* line 61
NoFileSelected(file) == file.filename = <<>>

\* variant: the truth test looks at the sanitized name
FileTruthySanitized(file) == secure_filename(file.filename) # <<>>

\* line 64: a FileStorage is true when its file name is not empty
FileTruthy(file) == file.filename # <<>>

Return(r, response) ==
    /\ pc' = [pc EXCEPT ![r] = "done"]
    /\ resp' = [resp EXCEPT ![r] = response]

\* variant: the payload is validated before the model handle is looked at
EarlyReturnFileFirst(m, request_files) ==
    IF NoFilePart(request_files) THEN NoFilePart400
    ELSE LET file == request_files["file"]
         IN  IF NoFileSelected(file) THEN NoFileSelected400
             ELSE IF ModelIsNone(m) THEN NotInitialized500
             ELSE IF FileTruthy(file) THEN NoResponse
             ELSE Unknown500

\* lines 52-64 and 111: the response returned without entering the try
\* statement; NoResponse when the handler goes on to line 66
EarlyReturn(m, request_files) ==
    IF ModelIsNone(m) THEN NotInitialized500
    ELSE IF NoFilePart(request_files) THEN NoFilePart400
    ELSE LET file == request_files["file"]
         IN  IF NoFileSelected(file) THEN NoFileSelected400
             ELSE IF FileTruthy(file) THEN NoResponse
             ELSE Unknown500

\* lines 52-67: the checks, then filename and filepath
Validate(r) ==
    /\ bootlog # ""
    /\ pc[r] = "idle"
    /\ \E request_files \in Payloads :
         /\ payload' = [payload EXCEPT ![r] = request_files]
         /\ LET early == EarlyReturn(model, request_files)
            IN  IF early # NoResponse
                THEN Return(r, early) /\ UNCHANGED filepath
                ELSE LET filename == secure_filename(request_files["file"].filename)
                     IN  /\ filepath' = [filepath EXCEPT
                                           ![r] = PathJoin(UPLOAD_FOLDER, filename)]
                         /\ pc' = [pc EXCEPT ![r] = "save"]
                         /\ UNCHANGED resp
    /\ UNCHANGED <<env, model, bootlog, files, pending, reply, sent, raised, fmtIn, fmtOut>>

\* the except clause of lines 101-103, then on to the finally clause
Except(r, exc) ==
    /\ pending' = [pending EXCEPT ![r] = Failed500(exc)]
    /\ raised' = [raised EXCEPT ![r] = Append(@, exc)]
    /\ pc' = [pc EXCEPT ![r] = "finally"]

\* line 71: file.save(filepath) opens the destination for writing, then copies
Save(r) ==
    /\ pc[r] = "save"
    /\ IF IsDir(filepath[r])
       THEN Except(r, "IsADirectoryError") /\ UNCHANGED files
       ELSE \E io \in {"ok", "open failed", "write failed"} :
              IF io = "ok"
              THEN /\ files' = WriteFile(files, filepath[r], r)
                   /\ pc' = [pc EXCEPT ![r] = "predict"]
                   /\ UNCHANGED <<pending, raised>>
              ELSE IF io = "write failed"
              THEN /\ files' = WriteFile(files, filepath[r], r)
                   /\ Except(r, "OSError: write")
              ELSE /\ UNCHANGED files
                   /\ Except(r, "OSError: open")
    /\ UNCHANGED <<env, model, bootlog, payload, filepath, resp, reply, sent, fmtIn, fmtOut>>

\* lines 76-99: the provider reads the file at filepath; its result is formatted
Predict(r) ==
    /\ pc[r] = "predict"
    /\ IF filepath[r] \notin DOMAIN files
       THEN /\ Except(r, "ProviderError: no such file")
            /\ UNCHANGED <<reply, sent>>
       ELSE /\ sent' = [sent EXCEPT ![r] = files[filepath[r]]]
            /\ \E outcome \in ProviderOutcomes :
                 /\ reply' = [reply EXCEPT ![r] = outcome]
                 /\ LET formatted == IF outcome.raise THEN outcome
                                     ELSE FormatResponse(outcome.value)
                    IN  IF formatted.raise
                        THEN Except(r, formatted.exc)
                        ELSE /\ pending' = [pending EXCEPT ![r] = formatted.value]
                             /\ pc' = [pc EXCEPT ![r] = "finally"]
                             /\ UNCHANGED raised
    /\ UNCHANGED <<env, model, bootlog, files, payload, filepath, resp, fmtIn, fmtOut>>

\* line 107: os.path.exists(filepath); without a file the pending response is returned
CleanupExists(r) ==
    /\ pc[r] = "finally"
    /\ IF Exists(files, filepath[r])
       THEN pc' = [pc EXCEPT ![r] = "remove"] /\ UNCHANGED resp
       ELSE Return(r, pending[r])
    /\ UNCHANGED <<env, model, bootlog, files, payload, filepath, pending, reply, sent,
                   raised, fmtIn, fmtOut>>

\* line 108: os.remove(filepath); an exception here replaces the pending response
CleanupRemove(r) ==
    /\ pc[r] = "remove"
    /\ IF IsDir(filepath[r])
       THEN /\ Return(r, Uncaught500)
            /\ raised' = [raised EXCEPT ![r] = Append(@, "IsADirectoryError")]
            /\ UNCHANGED files
       ELSE IF filepath[r] \notin DOMAIN files
       THEN /\ Return(r, Uncaught500)
            /\ raised' = [raised EXCEPT ![r] = Append(@, "FileNotFoundError")]
            /\ UNCHANGED files
       ELSE /\ files' = RemoveFile(files, filepath[r])
            /\ Return(r, pending[r])
            /\ UNCHANGED raised
    /\ UNCHANGED <<env, model, bootlog, payload, filepath, pending, reply, sent, fmtIn, fmtOut>>

-----------------------------------------------------------------------------
(* Specifications *)

InitHandlers ==
    /\ model = "None"
    /\ bootlog = ""
    /\ files = NoFiles
    /\ pc = [r \in Requests |-> "idle"]
    /\ payload = [r \in Requests |-> [f \in {} |-> FileStorage(<<>>)]]
    /\ filepath = [r \in Requests |-> <<>>]
    /\ pending = [r \in Requests |-> NoResponse]
    /\ resp = [r \in Requests |-> NoResponse]
    /\ reply = [r \in Requests |-> NoOutcome]
    /\ sent = [r \in Requests |-> 0]
    /\ raised = [r \in Requests |-> <<>>]

Init ==
    /\ env \in [ROBOFLOW_API_KEY : EnvValues, ROBOFLOW_WORKSPACE_ID : EnvValues]
    /\ InitHandlers
    /\ fmtIn = [predictions |-> <<>>]
    /\ fmtOut = NoOutcome

Next ==
    \/ Bootstrap
    \/ \E r \in Requests : Validate(r)
    \/ \E r \in Requests : Save(r)
    \/ \E r \in Requests : Predict(r)
    \/ \E r \in Requests : CleanupExists(r)
    \/ \E r \in Requests : CleanupRemove(r)

Spec == Init /\ [][Next]_vars

\* the formatter alone, on every provider result within the bounds
InitFormat ==
    /\ env = [ROBOFLOW_API_KEY |-> "secret", ROBOFLOW_WORKSPACE_ID |-> "secret"]
    /\ InitHandlers
    /\ fmtIn \in FormatInputs
    /\ fmtOut = NoOutcome

Format ==
    /\ fmtOut = NoOutcome
    /\ fmtOut' = FormatResponse(fmtIn)
    /\ UNCHANGED <<fmtIn, handlerVars>>

NextFormat == Format

SpecFormat == InitFormat /\ [][NextFormat]_vars

-----------------------------------------------------------------------------
(* Properties *)

Done(r) == pc[r] = "done"

\* the request got as far as line 71
ReachedSave(r) == Done(r) /\ filepath[r] # <<>>

HasFile(r) == "file" \in DOMAIN payload[r]

\* C1: once a request that reached the save step has completed, no file in
\* the upload directory holds bytes stored by that request, whatever the
\* interleaving with other requests.
NoResidualUpload ==
    \A r \in Requests :
        ReachedSave(r) => \A p \in DOMAIN files : files[p] # r

\* a request stored its file, the provider read it, the request completed
\* while another request was still being handled
StoredAndCompleted ==
    \E r, o \in Requests :
        /\ Done(r) /\ sent[r] = r /\ resp[r].status = 200
        /\ pc[o] \in {"predict", "finally", "remove"}

\* C2: when the bootstrap found a secret missing or could not connect, the
\* model handle is and stays unset and every completed /predict request,
\* whatever its payload, was answered 500 "Model is not initialized...".
UninitializedAlways500 ==
    (bootlog # "" /\ bootlog # "info: Successfully connected to Roboflow model.")
        => /\ model = "None"
           /\ \A r \in Requests :
                Done(r) => resp[r] = [status |-> 500, body |->
                    [error |-> "Model is not initialized. Check server logs for details."]]

\* without a model handle, a payload without file field and a payload with
\* a proper file were both answered
UninitializedAnswered ==
    /\ model = "None"
    /\ \E r, o \in Requests :
         /\ Done(r) /\ ~HasFile(r)
         /\ Done(o) /\ HasFile(o) /\ payload[o]["file"].filename # <<>>

\* C3 as stated: every request without a file field is answered 400 "No file
\* part in the request."
NoFilePartAlways400 ==
    \A r \in Requests :
        (Done(r) /\ ~HasFile(r))
            => resp[r] = [status |-> 400, body |-> [error |-> "No file part in the request."]]

\* C3 amended: with an initialized model handle, every request without a
\* file field is answered 400 "No file part in the request."
NoFilePart400WhenInitialized ==
    \A r \in Requests :
        (Done(r) /\ ~HasFile(r) /\ model # "None")
            => resp[r] = [status |-> 400, body |-> [error |-> "No file part in the request."]]

\* completed requests whose payload has no field at all, and whose payload
\* has the file under another field name, with the model initialized
NoFilePartAnswered ==
    /\ model # "None"
    /\ \E r, o \in Requests :
         /\ Done(r) /\ DOMAIN payload[r] = {}
         /\ Done(o) /\ DOMAIN payload[o] = {"image"}

\* C4 as stated: every request whose file has an empty file name is answered
\* 400 "No file selected."
EmptyNameAlways400 ==
    \A r \in Requests :
        (Done(r) /\ HasFile(r) /\ payload[r]["file"].filename = <<>>)
            => resp[r] = [status |-> 400, body |-> [error |-> "No file selected."]]

\* C4 amended: with an initialized model handle, every request whose file
\* has an empty file name is answered 400 "No file selected."
EmptyName400WhenInitialized ==
    \A r \in Requests :
        (Done(r) /\ HasFile(r) /\ payload[r]["file"].filename = <<>> /\ model # "None")
            => resp[r] = [status |-> 400, body |-> [error |-> "No file selected."]]

EmptyNameAnswered ==
    /\ model # "None"
    /\ \E r \in Requests : Done(r) /\ HasFile(r) /\ payload[r]["file"].filename = <<>>

\* out is label with every cased character upper-cased when it starts the
\* label or follows an uncased character, and lower-cased otherwise
IsTitleCaseOf(out, label) ==
    /\ Len(out) = Len(label)
    /\ \A k \in DOMAIN label :
         out[k] = IF ~IsCased(label[k]) THEN label[k]
                  ELSE IF k > 1 /\ IsCased(label[k - 1]) THEN Lower(label[k])
                  ELSE Upper(label[k])

FormatSucceeded == fmtOut # NoOutcome /\ ~fmtOut.raise

\* C5: for a non-empty detection list, the success response reports the
\* first detection of maximum confidence: its title-cased class label, its
\* confidence as given, and as tags the set of class labels of the list.
BestDetectionReported ==
    (FormatSucceeded /\ "predictions" \in DOMAIN fmtIn /\ fmtIn.predictions # <<>>)
        => LET preds == fmtIn.predictions
               body == fmtOut.value.body
           IN  /\ fmtOut.value.status = 200
               /\ DOMAIN body = {"prediction", "confidence", "tags"}
               /\ \E i \in DOMAIN preds :
                    /\ \A j \in DOMAIN preds : preds[j].confidence <= preds[i].confidence
                    /\ \A j \in 1..(i - 1) : preds[j].confidence < preds[i].confidence
                    /\ IsTitleCaseOf(body.prediction, preds[i].class)
                    /\ body.confidence = preds[i].confidence
               /\ body.tags = {preds[j].class : j \in DOMAIN preds}

\* a formatted list in which two detections of different classes share the
\* maximum and a label has an upper-case letter inside
TieFormatted ==
    /\ FormatSucceeded
    /\ "predictions" \in DOMAIN fmtIn
    /\ LET preds == fmtIn.predictions
       IN  \E i, j \in DOMAIN preds :
             /\ i < j
             /\ preds[i].confidence = MaxConfidence
             /\ preds[j].confidence = MaxConfidence
             /\ preds[i].class = Chars_zebu
             /\ preds[j].class # preds[i].class

\* C6 as stated: a completed request whose upload was saved and for which
\* the provider returned no detections was answered 200 with prediction
\* "Nothing detected", confidence 0 and tags ["no-detection"].
NothingDetectedReturned ==
    \A r \in Requests :
        (Done(r) /\ sent[r] # 0 /\ ~reply[r].raise
                 /\ reply[r].value \in {[other \in {} |-> <<>>], [predictions |-> <<>>]})
            => resp[r] = [status |-> 200, body |->
                   [prediction |-> NothingDetected, confidence |-> 0,
                    tags |-> {NoDetectionTag}]]

\* C7 as stated: a completed request that passed validation and in which
\* any step raised was answered 500 "Failed to process the image." with the
\* error's string as details.
FailureAlwaysJson500 ==
    \A r \in Requests :
        (ReachedSave(r) /\ raised[r] # <<>>)
            => \E k \in DOMAIN raised[r] :
                 resp[r] = [status |-> 500, body |->
                     [error |-> "Failed to process the image.", details |-> raised[r][k]]]

\* C8 as stated: from its save to its provider call, a request finds at its
\* path the file it stored itself, and the provider read that file.
UploadOwnedByRequest ==
    \A r \in Requests :
        /\ pc[r] = "predict" => (filepath[r] \in DOMAIN files /\ files[filepath[r]] = r)
        /\ sent[r] \in {0, r}

\* C9 as stated: the destination path of a request that passed validation
\* names an entry strictly inside the upload directory.
DestinationInsideUploadDir ==
    \A r \in Requests :
        filepath[r] # <<>>
            => LET path == filepath[r]
                   name == SubSeq(path, Len(UPLOAD_FOLDER) + 2, Len(path))
               IN  /\ path = UPLOAD_FOLDER \o <<"/">> \o name
                   /\ name # <<>>
                   /\ name \notin {<<".">>, <<".", ".">>}
                   /\ \A k \in DOMAIN name : name[k] # "/"

\* C10: no request is ever answered with the fallback 500 "An unknown error
\* occurred."
FallbackNeverReturned ==
    \A r \in Requests :
        resp[r] # [status |-> 500, body |-> [error |-> "An unknown error occurred."]]

\* every request has been answered, one of them for a file whose name
\* sanitizes to the empty string
AllAnsweredWithEmptySanitized ==
    /\ \A r \in Requests : Done(r)
    /\ \E r \in Requests :
         /\ HasFile(r)
         /\ payload[r]["file"].filename # <<>>
         /\ secure_filename(payload[r]["file"].filename) = <<>>

====
